---- MODULE Spec2Model ----
(***************************************************************************)
(* Model of useGoogleMapsActions: getPositionsEveryProvidedMeters (the     *)
(* distance sampler) and getLatLngsFromDirectionsResult (route flattening).*)
(*                                                                         *)
(* Geometry.  Paths lie on one meridian, so a LatLng is a record whose lat *)
(* is the signed distance along the meridian and whose lng is 0.  Lengths  *)
(* are fixed-point numbers counted in 1/Scale metre, so that fractional    *)
(* distances, and with them every case of Math.round, are representable.   *)
(***************************************************************************)
EXTENDS Integers, Sequences, FiniteSets, TLC

\* ---- bounds ------------------------------------------------------------
Scale == 4            \* sub-units per metre (lengths are multiples of 1/Scale m)
MaxPos == 6           \* grid points lie at 0 .. MaxPos sub-units
MaxLen == 4           \* longest grid path

\* ---- program constants -------------------------------------------------
DefaultMeters == 500  \* meters = 500

\* ---- inputs ------------------------------------------------------------
LatLng(x) == [lat |-> x, lng |-> 0]

GridPoints == {LatLng(x) : x \in 0..MaxPos}

GridPaths == UNION {[1..n -> GridPoints] : n \in 0..MaxLen}

\* the scenario of the specification: points at 0 m, 300 m and 600 m
ScenarioPath == <<LatLng(0), LatLng(300 * Scale), LatLng(600 * Scale)>>

\* the spacings passed by the caller, in sub-units; <<>> is an omitted argument
MetersArgs == {<<1>>, <<2>>, <<Scale>>, <<Scale + 2>>, <<2 * Scale>>, <<>>}

\* what the page has loaded: window.google, .maps, .geometry, .spherical
Envs == {"noGoogle", "noMaps", "noGeometry", "noSpherical", "ready"}

\* errors a geometry operation of the SDK may raise
ServiceErrors == {"E1", "E2"}

\* ---- inputs of getLatLngsFromDirectionsResult ---------------------------
MaxLegs == 2          \* most legs of a route
MaxSteps == 2         \* most steps of a leg
MaxInner == 1         \* most inner steps of a step

SeqsUpTo(S, n) == UNION {[1..k -> S] : k \in 0..n}

\* the paths of inner steps and of steps; the points are labels
InnerPaths == {<<1, 2>>, <<3>>}

StepPaths == {<<4, 5>>, <<>>}

InnerSteps == {[path |-> q] : q \in InnerPaths}

Steps == {[path |-> q, steps |-> in] :
            q \in StepPaths, in \in SeqsUpTo(InnerSteps, MaxInner)}

Legs == {[steps |-> st] : st \in SeqsUpTo(Steps, MaxSteps)}

Routes == {[legs |-> lg] : lg \in SeqsUpTo(Legs, MaxLegs)}

\* an alternative route, listed after the first
OtherRoute == [legs |-> <<[steps |-> <<[path |-> <<9>>, steps |-> <<>>]>>]>>]

DirectionsResults ==
  {[routes |-> <<>>]}
    \cup {[routes |-> <<r>>] : r \in Routes}
    \cup {[routes |-> <<r, OtherRoute>>] : r \in Routes}

VARIABLES
  env,          \* state of window.google
  latLngs,      \* argument latLngs
  meters,       \* parameter meters, in sub-units
  pc,           \* position of the call: "idle", "start", "loop", "resolve", "done"
  positions,    \* const positions
  prev,         \* let prev (a placeholder until the loop declares it)
  acc,          \* let acc, in sub-units
  idx,          \* index of the next element visited by for..of (1-based)
  outcome,      \* "none", "thrown", "rejected", "resolved"
  error,        \* the error thrown or passed to reject
  result,       \* the value passed to resolve
  geoCalls,     \* number of spherical operations invoked
  completions,  \* number of times the call completed (throw, resolve, reject)
  lastDiff,     \* <<diff>> of the last emission, <<>> before any
  raised,       \* the error a spherical operation raised, "none" if none did
  directionsResult,  \* argument of getLatLngsFromDirectionsResult
  fpc,          \* position of that call: "idle", "start", "legs", "resolve", "done"
  flatLatLngs,  \* its const latLngs
  legI,         \* its let i (1-based)
  stepJ,        \* its let j (1-based)
  fOutcome,     \* "none", "rejected", "resolved"
  fResult       \* the value passed to resolve

svars == <<env, latLngs, meters, pc, positions, prev, acc, idx, outcome, error,
           result, geoCalls, completions, lastDiff, raised>>

fvars == <<directionsResult, fpc, flatLatLngs, legI, stepJ, fOutcome, fResult>>

vars == <<svars, fvars>>

\* ---- helpers -----------------------------------------------------------
Abs(x) == IF x < 0 THEN -x ELSE x

\* mutant: the accumulated distance is truncated to whole metres
MathRound_floor(x) == x \div Scale

\* Math.round on a length of x sub-units: the nearest whole metre, halves up
MathRound(x) == (2 * x + Scale) \div (2 * Scale)

\* JSON.stringify of a LatLng (its toJSON gives {lat, lng})
JSONstringify(p) == <<"{lat:", p.lat, ",lng:", p.lng, "}">>

\* google.maps.geometry.spherical on a meridian
computeDistanceBetween(a, b) == Abs(b.lat - a.lat)

computeHeading(a, b) == IF b.lat >= a.lat THEN 0 ELSE 180

\* the origin from which travelling distance along heading arrives at to
computeOffsetOrigin(to, distance, heading) ==
  IF heading = 0 THEN LatLng(to.lat - distance) ELSE LatLng(to.lat + distance)

checkForGoogleMaps(e) == IF e = "noGoogle" THEN "NotLoaded" ELSE "ok"

checkForGeometryLib(e) ==
  IF checkForGoogleMaps(e) # "ok" THEN checkForGoogleMaps(e)
  ELSE IF e = "noMaps" THEN "TypeError"
  ELSE IF e = "noGeometry" THEN "NoGeometry"
  ELSE "ok"

\* mutant: the length test is missing, any identical first pair is refused
Validate_anyLength(e, path) ==
  IF checkForGeometryLib(e) # "ok" THEN checkForGeometryLib(e)
  ELSE IF Len(path) <= 1 THEN "AtLeastTwo"
  ELSE IF JSONstringify(path[1]) = JSONstringify(path[2]) THEN "MustDiffer"
  ELSE "ok"

\* mutant: the path is validated before the library is looked for
Validate_pathFirst(e, path) ==
  IF Len(path) <= 1 THEN "AtLeastTwo"
  ELSE IF Len(path) = 2 /\ JSONstringify(path[1]) = JSONstringify(path[2])
       THEN "MustDiffer"
  ELSE checkForGeometryLib(e)

\* the checks made before the promise is created: the error thrown, or "ok"
Validate(e, path) ==
  IF checkForGeometryLib(e) # "ok" THEN checkForGeometryLib(e)
  ELSE IF Len(path) <= 1 THEN "AtLeastTwo"
  ELSE IF Len(path) = 2 /\ JSONstringify(path[1]) = JSONstringify(path[2])
       THEN "MustDiffer"
  ELSE "ok"

\* mutant: the comparison is reversed
StillAccumulating_reversed(a, m) == MathRound(a) * Scale > m

\* mutant: the comparison is made on the unrounded accumulated distance
StillAccumulating_unrounded(a, m) == a < m

\* the test that keeps accumulating
StillAccumulating(a, m) == MathRound(a) * Scale < m

\* mutant: two points already enter the loop
EntersLoop_two(path) == Len(path) >= 2

\* if (latLngs.length > 2)
EntersLoop(path) == Len(path) > 2

\* mutant: the new point is put in front
Push_front(out, p) == <<p>> \o out

\* positions.push
Push(out, p) == Append(out, p)

\* mutant: the catch block swallows the error and resolves what was gathered
OnError_swallow(e, out) == [outcome |-> "resolved", error |-> "none", result |-> out]

\* catch (error) { reject(error) }
OnError(e, out) == [outcome |-> "rejected", error |-> e, result |-> <<>>]

\* mutant: the offset is taken from the anchor instead of the current point
adjustedPosition_fromPrev(p, latLng, diff) ==
  computeOffsetOrigin(p, diff, computeHeading(p, latLng))

\* const heading, const adjustedPosition
adjustedPosition(p, latLng, diff) ==
  computeOffsetOrigin(latLng, diff, computeHeading(p, latLng))

\* ---- initial states ----------------------------------------------------
\* no call of getLatLngsFromDirectionsResult is under way
FlatIdle ==
  /\ directionsResult = [routes |-> <<>>]
  /\ fpc = "idle"
  /\ flatLatLngs = <<>>
  /\ legI = 0
  /\ stepJ = 0
  /\ fOutcome = "none"
  /\ fResult = <<>>

Init ==
  /\ FlatIdle
  /\ env \in Envs
  /\ \/ /\ latLngs \in GridPaths
        /\ \E arg \in MetersArgs :
             meters = IF arg = <<>> THEN DefaultMeters * Scale ELSE arg[1]
     \/ /\ latLngs = ScenarioPath
        /\ meters = DefaultMeters * Scale
  /\ pc = "start"
  /\ positions = <<>>
  /\ prev = LatLng(0)
  /\ acc = 0
  /\ idx = 0
  /\ outcome = "none"
  /\ error = "none"
  /\ result = <<>>
  /\ geoCalls = 0
  /\ completions = 0
  /\ lastDiff = <<>>
  /\ raised = "none"

\* ---- actions -----------------------------------------------------------
\* a check before the promise fails: the call throws
CallThrows ==
  /\ pc = "start"
  /\ Validate(env, latLngs) # "ok"
  /\ pc' = "done"
  /\ outcome' = "thrown"
  /\ error' = Validate(env, latLngs)
  /\ completions' = completions + 1
  /\ UNCHANGED <<env, latLngs, meters, positions, prev, acc, idx, result,
                 geoCalls, lastDiff, raised>>

\* the executor starts: positions = [first], then the destructuring of spherical
CallStarts ==
  /\ pc = "start"
  /\ Validate(env, latLngs) = "ok"
  /\ positions' = <<latLngs[1]>>
  /\ IF env = "noSpherical"
       THEN /\ pc' = "done"
            /\ outcome' = OnError("TypeError", <<latLngs[1]>>).outcome
            /\ error' = OnError("TypeError", <<latLngs[1]>>).error
            /\ result' = OnError("TypeError", <<latLngs[1]>>).result
            /\ completions' = completions + 1
            /\ UNCHANGED <<prev, acc, idx>>
       ELSE /\ IF EntersLoop(latLngs)
                 THEN pc' = "loop" /\ prev' = latLngs[1] /\ acc' = 0 /\ idx' = 1
                 ELSE pc' = "resolve" /\ UNCHANGED <<prev, acc, idx>>
            /\ UNCHANGED <<outcome, error, result, completions>>
  /\ UNCHANGED <<env, latLngs, meters, geoCalls, lastDiff, raised>>

\* one iteration in which round(acc) < meters: the anchor moves on
Advance ==
  /\ pc = "loop"
  /\ idx <= Len(latLngs)
  /\ LET latLng == latLngs[idx]
         acc1 == acc + computeDistanceBetween(prev, latLng)
     IN /\ StillAccumulating(acc1, meters)
        /\ acc' = acc1
        /\ prev' = latLng
  /\ idx' = idx + 1
  /\ geoCalls' = geoCalls + 1
  /\ UNCHANGED <<env, latLngs, meters, pc, positions, outcome, error, result,
                 completions, lastDiff, raised>>

\* one iteration in which the spacing is reached: a synthetic point is pushed
Emit ==
  /\ pc = "loop"
  /\ idx <= Len(latLngs)
  /\ LET latLng == latLngs[idx]
         acc1 == acc + computeDistanceBetween(prev, latLng)
         diff == acc1 - meters
         adjusted == adjustedPosition(prev, latLng, diff)
     IN /\ ~StillAccumulating(acc1, meters)
        /\ acc' = 0
        /\ prev' = adjusted
        /\ positions' = Push(positions, adjusted)
        /\ lastDiff' = <<diff>>
  /\ idx' = idx + 1
  /\ geoCalls' = geoCalls + 3
  /\ UNCHANGED <<env, latLngs, meters, pc, outcome, error, result, completions,
                 raised>>

\* computeDistanceBetween raises e: the catch block rejects with e
DistanceFails ==
  /\ pc = "loop"
  /\ idx <= Len(latLngs)
  /\ \E e \in ServiceErrors :
       /\ raised' = e
       /\ outcome' = OnError(e, positions).outcome
       /\ error' = OnError(e, positions).error
       /\ result' = OnError(e, positions).result
  /\ pc' = "done"
  /\ completions' = completions + 1
  /\ geoCalls' = geoCalls + 1
  /\ UNCHANGED <<env, latLngs, meters, positions, prev, acc, idx, lastDiff>>

\* computeHeading or computeOffsetOrigin raises e after acc was updated
OffsetFails ==
  /\ pc = "loop"
  /\ idx <= Len(latLngs)
  /\ LET acc1 == acc + computeDistanceBetween(prev, latLngs[idx])
     IN /\ ~StillAccumulating(acc1, meters)
        /\ acc' = acc1
  /\ \E e \in ServiceErrors :
       /\ raised' = e
       /\ outcome' = OnError(e, positions).outcome
       /\ error' = OnError(e, positions).error
       /\ result' = OnError(e, positions).result
  /\ \E n \in {2, 3} : geoCalls' = geoCalls + n
  /\ pc' = "done"
  /\ completions' = completions + 1
  /\ UNCHANGED <<env, latLngs, meters, positions, prev, idx, lastDiff>>

\* the loop is over
LoopEnds ==
  /\ pc = "loop"
  /\ idx > Len(latLngs)
  /\ pc' = "resolve"
  /\ UNCHANGED <<env, latLngs, meters, positions, prev, acc, idx, outcome, error,
                 result, geoCalls, completions, lastDiff, raised>>

\* resolve(positions)
Resolve ==
  /\ pc = "resolve"
  /\ pc' = "done"
  /\ outcome' = "resolved"
  /\ result' = positions
  /\ completions' = completions + 1
  /\ UNCHANGED <<env, latLngs, meters, positions, prev, acc, idx, error,
                 geoCalls, lastDiff, raised>>

Next ==
  \/ CallThrows /\ UNCHANGED fvars
  \/ CallStarts /\ UNCHANGED fvars
  \/ Advance /\ UNCHANGED fvars
  \/ Emit /\ UNCHANGED fvars
  \/ DistanceFails /\ UNCHANGED fvars
  \/ OffsetFails /\ UNCHANGED fvars
  \/ LoopEnds /\ UNCHANGED fvars
  \/ Resolve /\ UNCHANGED fvars

Spec == Init /\ [][Next]_vars

\* ---- getLatLngsFromDirectionsResult ------------------------------------
\* no call of getPositionsEveryProvidedMeters is under way
SamplerIdle ==
  /\ env = "ready"
  /\ latLngs = <<>>
  /\ meters = DefaultMeters * Scale
  /\ pc = "idle"
  /\ positions = <<>>
  /\ prev = LatLng(0)
  /\ acc = 0
  /\ idx = 0
  /\ outcome = "none"
  /\ error = "none"
  /\ result = <<>>
  /\ geoCalls = 0
  /\ completions = 0
  /\ lastDiff = <<>>
  /\ raised = "none"

InitFlat ==
  /\ SamplerIdle
  /\ directionsResult \in DirectionsResults
  /\ fpc = "start"
  /\ flatLatLngs = <<>>
  /\ legI = 0
  /\ stepJ = 0
  /\ fOutcome = "none"
  /\ fResult = <<>>

RECURSIVE PushAll(_, _)
\* path.forEach((p) => latLngs.push(p))
PushAll(out, path) ==
  IF path = <<>> THEN out ELSE PushAll(Push(out, Head(path)), Tail(path))

RECURSIVE PushInner(_, _)
\* for (let k ...) innerStep.path.forEach(...)
PushInner(out, inner) ==
  IF inner = <<>> THEN out
  ELSE PushInner(PushAll(out, Head(inner).path), Tail(inner))

\* mutant: the step's own path is pushed as well as its inner steps' paths
PushStep_both(out, step) == PushInner(PushAll(out, step.path), step.steps)

\* the body of the loop over j
PushStep(out, step) ==
  IF Len(step.steps) > 0 THEN PushInner(out, step.steps)
  ELSE PushAll(out, step.path)

\* const [route] = routes
FirstRoute(routes) == routes[1]

route == FirstRoute(directionsResult.routes)

\* routes is empty: route is undefined and route.legs raises a TypeError
FlatRejects ==
  /\ fpc = "start"
  /\ directionsResult.routes = <<>>
  /\ fpc' = "done"
  /\ fOutcome' = "rejected"
  /\ UNCHANGED <<directionsResult, flatLatLngs, legI, stepJ, fResult>>

\* const latLngs = []; the loop over the legs is entered, or skipped
FlatStarts ==
  /\ fpc = "start"
  /\ directionsResult.routes # <<>>
  /\ flatLatLngs' = <<>>
  /\ IF Len(route.legs) > 0
       THEN fpc' = "legs" /\ legI' = 1 /\ stepJ' = 1
       ELSE fpc' = "resolve" /\ UNCHANGED <<legI, stepJ>>
  /\ UNCHANGED <<directionsResult, fOutcome, fResult>>

\* one iteration of the loop over j: the points of step j of leg i are pushed
FlatStep ==
  /\ fpc = "legs"
  /\ legI <= Len(route.legs)
  /\ stepJ <= Len(route.legs[legI].steps)
  /\ flatLatLngs' = PushStep(flatLatLngs, route.legs[legI].steps[stepJ])
  /\ stepJ' = stepJ + 1
  /\ UNCHANGED <<directionsResult, fpc, legI, fOutcome, fResult>>

\* leg i has no steps, or no more: i++
FlatNextLeg ==
  /\ fpc = "legs"
  /\ legI <= Len(route.legs)
  /\ stepJ > Len(route.legs[legI].steps)
  /\ legI' = legI + 1
  /\ stepJ' = 1
  /\ UNCHANGED <<directionsResult, fpc, flatLatLngs, fOutcome, fResult>>

\* the loop over the legs is over
FlatLegsEnd ==
  /\ fpc = "legs"
  /\ legI > Len(route.legs)
  /\ fpc' = "resolve"
  /\ UNCHANGED <<directionsResult, flatLatLngs, legI, stepJ, fOutcome, fResult>>

\* resolve(latLngs)
FlatResolve ==
  /\ fpc = "resolve"
  /\ fpc' = "done"
  /\ fOutcome' = "resolved"
  /\ fResult' = flatLatLngs
  /\ UNCHANGED <<directionsResult, flatLatLngs, legI, stepJ>>

NextFlat ==
  \/ FlatRejects /\ UNCHANGED svars
  \/ FlatStarts /\ UNCHANGED svars
  \/ FlatStep /\ UNCHANGED svars
  \/ FlatNextLeg /\ UNCHANGED svars
  \/ FlatLegsEnd /\ UNCHANGED svars
  \/ FlatResolve /\ UNCHANGED svars

SpecFlat == InitFlat /\ [][NextFlat]_vars

\* ---- measures of a call ------------------------------------------------
RECURSIVE PathLength(_)
\* the sum of the distances between consecutive points of a path
PathLength(path) ==
  IF Len(path) <= 1 THEN 0
  ELSE computeDistanceBetween(path[1], path[2]) + PathLength(Tail(path))

\* every two consecutive points of path are exactly d apart
Uniform(path, d) ==
  \A i \in 1..(Len(path) - 1) : computeDistanceBetween(path[i], path[i + 1]) = d

Resolved == pc = "done" /\ outcome = "resolved"

\* the number of synthetic points of the result
Synthetic == Len(result) - 1

\* ---- C1 ----------------------------------------------------------------
\* C1: when a call resolves, the number of synthetic points of the result is
\* floor(path length / spacing), give or take the one point that rounding the
\* accumulated distance to whole metres can add or remove.
C1_CountIsFloorOfLength ==
  Resolved =>
    /\ Synthetic >= (PathLength(latLngs) \div meters) - 1
    /\ Synthetic <= (PathLength(latLngs) \div meters) + 1

\* ---- C2 ----------------------------------------------------------------
\* C2 (as stated): a resolved call on three or more points that are each
\* exactly d apart, d below the spacing, yields the first point alone.
C2_UniformBelowSpacingYieldsFirstOnly ==
  (Resolved /\ Len(latLngs) >= 3) =>
    \A d \in 0..MaxPos :
      (Uniform(latLngs, d) /\ d < meters) => result = <<latLngs[1]>>

\* C2 (amended): a resolved call on three or more points that are each exactly
\* d apart yields the first point alone exactly when the length of the whole
\* path, (n - 1) * d, rounded to whole metres, is below the spacing.
C2_UniformYieldsFirstOnlyIffLengthBelowSpacing ==
  (Resolved /\ Len(latLngs) >= 3) =>
    \A d \in 0..MaxPos :
      Uniform(latLngs, d) =>
        (result = <<latLngs[1]>>
           <=> MathRound((Len(latLngs) - 1) * d) * Scale < meters)

\* a uniform path with 0 < d < spacing was sampled down to its first point
C2_Witness ==
  /\ Resolved
  /\ Len(latLngs) >= 3
  /\ \E d \in 1..MaxPos : Uniform(latLngs, d) /\ d < meters
  /\ result = <<latLngs[1]>>

\* ---- C3 ----------------------------------------------------------------
\* the points of path lie at strictly increasing distances along the heading
StrictlyIncreasing(path) ==
  \A i \in 1..(Len(path) - 1) : path[i].lat < path[i + 1].lat

\* consecutive points of path are at least half a metre apart
HalfMetreApart(path) ==
  \A i \in 1..(Len(path) - 1) :
    2 * computeDistanceBetween(path[i], path[i + 1]) >= Scale

\* every output point after the first lies exactly spacing after the one before
EvenlySpaced(out) ==
  \A k \in 2..Len(out) : out[k].lat = out[k - 1].lat + meters

\* the scenario: points at 0 m, 300 m, 600 m, spacing 500, yields 0 m and 500 m
ScenarioHolds ==
  (Resolved /\ latLngs = ScenarioPath /\ meters = 500 * Scale) =>
    result = <<LatLng(0), LatLng(500 * Scale)>>

InvalidInput == {"AtLeastTwo", "MustDiffer"}

CoordinateIdentical(a, b) == a.lat = b.lat /\ a.lng = b.lng

\* C4: with the library loaded, the call throws an InvalidInput error exactly
\* when the path has fewer than two points or has two points that are
\* coordinate-identical; three or more points are never refused for identical
\* points; a call that throws has built no output and run no geometry.
C4_InvalidInputIffShortOrTwoIdentical ==
  (env = "ready" /\ pc # "start") =>
    /\ (outcome = "thrown" /\ error \in InvalidInput)
         <=> \/ Len(latLngs) < 2
             \/ Len(latLngs) = 2 /\ CoordinateIdentical(latLngs[1], latLngs[2])
    /\ Len(latLngs) >= 3 => error # "MustDiffer"
    /\ outcome = "thrown" =>
         pc = "done" /\ positions = <<>> /\ result = <<>> /\ geoCalls = 0

\* a pair of identical points was refused
C4_Witness ==
  /\ env = "ready" /\ pc = "done"
  /\ Len(latLngs) = 2 /\ CoordinateIdentical(latLngs[1], latLngs[2])
  /\ outcome = "thrown" /\ error = "MustDiffer"

\* ---- C5 ----------------------------------------------------------------
\* C5: with the library loaded, a call on two distinct points ends resolved
\* with the first point alone, whatever the spacing: nothing was accumulated
\* and no geometry operation ran.
C5_TwoPointsYieldFirstOnly ==
  (env = "ready" /\ pc = "done" /\ Len(latLngs) = 2
     /\ ~CoordinateIdentical(latLngs[1], latLngs[2])) =>
    /\ Resolved
    /\ result = <<latLngs[1]>>
    /\ acc = 0 /\ geoCalls = 0 /\ lastDiff = <<>>

\* two points further apart than the spacing were sampled
C5_Witness ==
  /\ env = "ready" /\ Resolved /\ Len(latLngs) = 2
  /\ computeDistanceBetween(latLngs[1], latLngs[2]) >= meters
  /\ result = <<latLngs[1]>>

\* ---- C6 ----------------------------------------------------------------
\* the executor has begun
Started == pc \in {"loop", "resolve"} \/ (pc = "done" /\ outcome # "thrown")

IsPrefix(s, t) == Len(s) <= Len(t) /\ SubSeq(t, 1, Len(s)) = s

\* C6: from the moment the executor begins, positions is non-empty and starts
\* with latLngs[0], so does a resolved result, and every step leaves positions
\* alone or appends one element to it.
C6_FirstPointKeptAndAppendOnly ==
  /\ [](Started => (positions # <<>> /\ positions[1] = latLngs[1]))
  /\ [](Resolved => (result # <<>> /\ result[1] = latLngs[1]))
  /\ [][Started => /\ IsPrefix(positions, positions')
                   /\ Len(positions') <= Len(positions) + 1]_vars

\* a second synthetic point was appended behind the first point
C6_Witness ==
  /\ Started /\ Len(positions) >= 3 /\ positions[1] = latLngs[1]
  /\ positions[2] # positions[3]

\* ---- C7 ----------------------------------------------------------------
\* the errors thrown when the SDK or its geometry library is missing
DependencyUnavailable == {"NotLoaded", "NoGeometry"}

\* C7: without window.google, or without its geometry library, the call throws
\* the matching DependencyUnavailable error whatever the arguments, an invalid
\* path included, and no geometry operation runs.
C7_MissingLibraryThrowsFirst ==
  (env \in {"noGoogle", "noGeometry"} /\ pc # "start") =>
    /\ pc = "done" /\ outcome = "thrown"
    /\ error = (IF env = "noGoogle" THEN "NotLoaded" ELSE "NoGeometry")
    /\ error \in DependencyUnavailable
    /\ geoCalls = 0 /\ positions = <<>> /\ result = <<>>

\* an invalid path was given while the geometry library was missing
C7_Witness ==
  /\ env = "noGeometry" /\ pc = "done" /\ outcome = "thrown"
  /\ Len(latLngs) <= 1
  /\ error = "NoGeometry"

\* ---- C8 ----------------------------------------------------------------
\* C8: once a spherical operation has raised an error the call is over: it is
\* rejected with that very error, nothing was resolved, no further step is
\* taken, and no call completes more than once.
C8_ServiceErrorRejectsUnchanged ==
  /\ [](raised # "none" =>
          /\ pc = "done" /\ outcome = "rejected" /\ error = raised
          /\ result = <<>>
          /\ completions = 1)
  /\ [](completions <= 1 /\ (pc = "done" <=> completions = 1))
  /\ [][raised # "none" => UNCHANGED vars]_vars

\* the offset of a second synthetic point failed after a first one was pushed
C8_Witness ==
  /\ raised \in ServiceErrors /\ outcome = "rejected" /\ error = raised
  /\ Len(positions) >= 2
  /\ ~StillAccumulating(acc, meters)

\* ---- C9 ----------------------------------------------------------------
\* the whole metre nearest to a sub-units, halves going up
NearestMetre(a) ==
  CHOOSE r \in 0..((a \div Scale) + 1) :
    2 * Scale * r - Scale <= 2 * a /\ 2 * a < 2 * Scale * r + Scale

\* the accumulated distance once the point about to be visited is added
AccAtVisit == acc + computeDistanceBetween(prev, latLngs[idx])

\* the point the visited point is moved back to, by the overshoot d
MovedBack(d) ==
  IF latLngs[idx].lat >= prev.lat THEN LatLng(latLngs[idx].lat - d)
                                  ELSE LatLng(latLngs[idx].lat + d)

\* a visit of the loop that no geometry operation failed
Visit == pc = "loop" /\ idx <= Len(latLngs) /\ pc' = "loop"

\* the rule of a visit: accumulate, round, then move the anchor or emit
VisitRule ==
  Visit =>
    IF NearestMetre(AccAtVisit) * Scale < meters
      THEN /\ prev' = latLngs[idx] /\ acc' = AccAtVisit
           /\ positions' = positions /\ lastDiff' = lastDiff
      ELSE /\ positions' = Append(positions, MovedBack(AccAtVisit - meters))
           /\ lastDiff' = <<AccAtVisit - meters>>
           /\ acc' = 0 /\ prev' = MovedBack(AccAtVisit - meters)

\* an accumulated distance in [spacing - 0.5, spacing) emits, with a negative
\* overshoot; one below spacing - 0.5 emits nothing
HalfMetreRule ==
  Visit =>
    /\ (2 * AccAtVisit >= 2 * meters - Scale /\ AccAtVisit < meters) =>
         (Len(positions') = Len(positions) + 1 /\ lastDiff'[1] < 0)
    /\ 2 * AccAtVisit < 2 * meters - Scale => positions' = positions

\* C9 (as stated): every visit follows the rule, and for every spacing an
\* accumulated distance in [spacing - 0.5, spacing) emits a point with a
\* negative overshoot while one below spacing - 0.5 emits nothing.
C9_RoundedComparisonAndHalfMetreWindow ==
  [][VisitRule /\ HalfMetreRule]_vars

\* C9 (amended): every visit follows the rule; an accumulated distance below
\* spacing - 0.5 emits nothing; and when the spacing is a whole number of
\* metres an accumulated distance in [spacing - 0.5, spacing) emits a point
\* with a negative overshoot.
C9_RoundedComparisonAndWholeMetreWindow ==
  [][VisitRule /\ (meters % Scale = 0 => HalfMetreRule)
       /\ (Visit /\ 2 * AccAtVisit < 2 * meters - Scale => positions' = positions)]_vars

\* with a whole-metre spacing a point was emitted with a negative overshoot
C9_Witness ==
  /\ pc = "loop" /\ meters % Scale = 0
  /\ lastDiff # <<>> /\ lastDiff[1] < 0
  /\ acc = 0 /\ prev = positions[Len(positions)]

\* ---- C10 ---------------------------------------------------------------
RECURSIVE Concat(_)
\* the concatenation of a sequence of sequences
Concat(ss) == IF ss = <<>> THEN <<>> ELSE Head(ss) \o Concat(Tail(ss))

\* the points a step stands for: its inner steps' paths if it has inner steps
PointsOfStep(st) ==
  IF st.steps # <<>> THEN Concat([k \in 1..Len(st.steps) |-> st.steps[k].path])
  ELSE st.path

PointsOfLeg(lg) == Concat([j \in 1..Len(lg.steps) |-> PointsOfStep(lg.steps[j])])

PointsOfRoute(r) == Concat([i \in 1..Len(r.legs) |-> PointsOfLeg(r.legs[i])])

Visited == IF idx = 0 THEN 0 ELSE idx - 1

\* C11: a step that visits a point pushes at most one synthetic point and
\* moves on to the next point, the visit of the first point pushes none, so
\* there are never more synthetic points than visited points after the first,
\* and a resolved result is never longer than the path.
C11_AtMostOneEmissionPerPoint ==
  /\ [][(pc = "loop" /\ idx <= Len(latLngs)) =>
          /\ Len(positions') <= Len(positions) + 1
          /\ (Len(positions') = Len(positions) + 1 => idx' = idx + 1)
          /\ (idx = 1 => positions' = positions)]_vars
  /\ [](Started =>
          /\ Len(positions) - 1 <= (IF Visited = 0 THEN 0 ELSE Visited - 1)
          /\ Len(positions) <= Len(latLngs))
  /\ [](Resolved =>
          (Len(result) - 1 <= Len(latLngs) - 1 /\ Len(result) <= Len(latLngs)))

\* every point after the first emitted one, across a segment at least twice
\* as long as the spacing
C11_Witness ==
  /\ Resolved /\ Len(latLngs) >= 3
  /\ \E i \in 1..(Len(latLngs) - 1) :
       computeDistanceBetween(latLngs[i], latLngs[i + 1]) >= 2 * meters
  /\ Len(result) = Len(latLngs)

====
